---- MODULE Spec2Model ----
(***************************************************************************)
(* A model of three parts of the repository:                               *)
(*   - pyro/contrib/epidemiology/seir.py: SimpleSEIRModel and              *)
(*     OverdispersedSEIRModel (construction, initialize, transition_fwd,   *)
(*     transition_bwd);                                                    *)
(*   - pyro/contrib/funsor/infer/trace_elbo.py: terms_from_trace and       *)
(*     Trace_ELBO.differentiable_loss;                                     *)
(*   - examples/contrib/funsor/hmm.py: main.                               *)
(* Each part has its own next-state relation and specification; the        *)
(* variables of the other parts stay at their initial values.              *)
(***************************************************************************)
EXTENDS Integers, Sequences, FiniteSets, TLC

VARIABLES
    \* ---- seir.py ----
    pc,        \* "new" | "constructed" | "failed" | "running" | "error" | "rt"
    seir,      \* the constructed model object (NoModel before / on failure)
    raised,    \* the exception the last operation raised, <<>> for none
    state,     \* the dict of compartments {"S", "E", "I"}
    prev,      \* the compartments at the start of the last transition
    t,         \* the next time step of the forward simulation
    sites,     \* the sample sites of the last transition_fwd call
    bwd,       \* the sample sites of the last transition_bwd call
    ctorArgs,  \* the arguments the constructor was called with
    call       \* the last operation: "none" | "init" | "initialize" | "fwd" | "bwd"

seirVars == <<pc, seir, raised, state, prev, t, sites, bwd, ctorArgs, call>>

VARIABLES
    \* ---- trace_elbo.py: one call of Trace_ELBO.differentiable_loss ----
    epc,                   \* the statement the call has reached
    elbo,                  \* self: num_particles, max_plate_nesting
    loss_args,             \* *args, **kwargs of the call
    handlers,              \* the stack of active effect handlers
    calls,                 \* the calls made so far, in order
    guide_tr,              \* None until the guide is traced
    model_tr,              \* None until the model is traced
    model_terms,           \* None until extracted
    guide_terms,           \* None until extracted
    plate_vars,
    model_measure_vars,
    contracted_factors,
    uncontracted_factors,
    psp,                   \* the arguments partial_sum_product is called with
    contracted_costs,
    costs,
    targets,               \* the dict targets, in insertion order
    logzq,                 \* the sum_product call that gives logzq
    tape_log_measures,     \* the dict log_measures the tape returns
    elbo_sum,              \* the local elbo, None before the last block
    returned               \* the value returned, None before

\* The locals of the second half of differentiable_loss.
rbVars == <<targets, logzq, tape_log_measures, elbo_sum, returned>>

elboVars == <<epc, elbo, loss_args, handlers, calls, guide_tr, model_tr,
              model_terms, guide_terms, plate_vars, model_measure_vars,
              contracted_factors, uncontracted_factors, psp, contracted_costs,
              costs, rbVars>>

VARIABLES
    \* ---- examples/contrib/funsor/hmm.py: one run of main(args) ----
    mpc,        \* the statement main has reached
    margs,      \* args
    Elbo,       \* the ELBO class chosen, None before
    helbo,      \* elbo, the instance of Elbo, None before
    svi,        \* the SVI object, None before
    nsteps,     \* the number of svi.step calls made
    mraised,    \* the exception main raised, None for none
    mcalls,     \* the calls main made so far, in order
    chorales,   \* data, as poly.load_data returned it
    sequences,  \* the local sequences (a tensor, by its shape)
    lengths,    \* the local lengths
    num_observations,
    logged      \* the losses main logged so far, in order

hmmVars == <<mpc, margs, Elbo, helbo, svi, nsteps, mraised, mcalls, chorales,
             sequences, lengths, num_observations, logged>>

vars == <<seirVars, elboVars, hmmVars>>

-----------------------------------------------------------------------------
(* Bounds of the model. *)

MaxPop == 3        \* populations 1..MaxPop
MaxDur == 2        \* data series of length 0..MaxDur
Forecast == 1      \* forward steps simulated beyond the data
FlowBound == 2     \* conditioned flows -1..FlowBound in the round trip
MaxParticles == 2  \* num_particles 1..MaxParticles
MaxSteps == 2      \* --num-steps 0..MaxSteps
MaxLength == 2     \* sequence lengths 1..MaxLength

-----------------------------------------------------------------------------
(* Python values. *)

None == <<>>
Some(v) == <<v>>

\* Numbers passed as incubation_time / recovery_time: a Python type and the
\* value in tenths (15 is 1.5).
PyFloat(tenths) == [type |-> "float", tenths |-> tenths]
PyInt(n) == [type |-> "int", tenths |-> n * 10]

\* A slip in the comparison: 1.0 is accepted.
greater_than_1_mutant(x) == x.tenths >= 10

isinstance_float(x) == x.type = "float"
greater_than_1(x) == x.tenths > 10

TimeInputs == {PyFloat(10), PyFloat(15), PyFloat(50), PyInt(5)}

RECURSIVE SeqsUpTo(_, _)
SeqsUpTo(S, n) ==
    IF n = 0 THEN {<<>>}
    ELSE LET shorter == SeqsUpTo(S, n - 1)
         IN shorter \cup {Append(s, x) : s \in {q \in shorter : Len(q) = n - 1}, x \in S}

\* Observed counts in the data series.
ObsValues == {0, 1}

DataInputs == SeqsUpTo(ObsValues, MaxDur)

\* data[t] for t >= 0: Python raises IndexError at or beyond the length.
getitem(data, i) ==
    IF i < Len(data) THEN [raised |-> None, value |-> Some(data[i + 1])]
    ELSE [raised |-> Some("IndexError"), value |-> None]

NoModel == [kind |-> "none"]
NoState == [S |-> 0, E |-> 0, I |-> 0]

AssertionError == Some("AssertionError")

-----------------------------------------------------------------------------
(* seir.py: construction. *)

\* CompartmentalModel.__init__ (compartmental.py): checks and stores the
\* duration and the population.
CompartmentalModel_init(compartments, duration, population) ==
    IF duration < 1 \/ population < 2
    THEN [raised |-> AssertionError]
    ELSE [raised |-> None, compartments |-> compartments,
          duration |-> duration, population |-> population]

SimpleSEIRModel_init(population, incubation_time, recovery_time, data) ==
    LET compartments == <<"S", "E", "I">>
        duration == Len(data)
        base == CompartmentalModel_init(compartments, duration, population)
    IN IF base.raised # None THEN [raised |-> base.raised, self |-> NoModel]
       ELSE IF ~isinstance_float(incubation_time)
            THEN [raised |-> AssertionError, self |-> NoModel]
       ELSE IF ~greater_than_1(incubation_time)
            THEN [raised |-> AssertionError, self |-> NoModel]
       ELSE IF ~isinstance_float(recovery_time)
            THEN [raised |-> AssertionError, self |-> NoModel]
       ELSE IF ~greater_than_1(recovery_time)
            THEN [raised |-> AssertionError, self |-> NoModel]
       ELSE [raised |-> None,
             self |-> [kind |-> "SimpleSEIRModel",
                       compartments |-> base.compartments,
                       duration |-> base.duration,
                       population |-> base.population,
                       incubation_time |-> incubation_time,
                       recovery_time |-> recovery_time,
                       data |-> data]]

OverdispersedSEIRModel_init(population, incubation_time, recovery_time, data) ==
    LET compartments == <<"S", "E", "I">>
        duration == Len(data)
        base == CompartmentalModel_init(compartments, duration, population)
    IN IF base.raised # None THEN [raised |-> base.raised, self |-> NoModel]
       ELSE IF ~isinstance_float(incubation_time)
            THEN [raised |-> AssertionError, self |-> NoModel]
       ELSE IF ~greater_than_1(incubation_time)
            THEN [raised |-> AssertionError, self |-> NoModel]
       ELSE IF ~isinstance_float(recovery_time)
            THEN [raised |-> AssertionError, self |-> NoModel]
       ELSE IF ~greater_than_1(recovery_time)
            THEN [raised |-> AssertionError, self |-> NoModel]
       ELSE [raised |-> None,
             self |-> [kind |-> "OverdispersedSEIRModel",
                       compartments |-> base.compartments,
                       duration |-> base.duration,
                       population |-> base.population,
                       incubation_time |-> incubation_time,
                       recovery_time |-> recovery_time,
                       data |-> data]]

\* global_model: tau_e and tau_i are the stored times; R0, rho and k are
\* continuous samples, kept symbolic.
SimpleSEIRModel_global_model(self) ==
    [R0 |-> "R0", tau_e |-> self.incubation_time,
     tau_i |-> self.recovery_time, rho |-> "rho"]

OverdispersedSEIRModel_global_model(self) ==
    [R0 |-> "R0", k |-> "k", tau_e |-> self.incubation_time,
     tau_i |-> self.recovery_time, rho |-> "rho"]

\* initialize: a single infection, nobody exposed.
SimpleSEIRModel_initialize(self) ==
    [S |-> self.population - 1, E |-> 0, I |-> 1]

OverdispersedSEIRModel_initialize(self) ==
    [S |-> self.population - 1, E |-> 0, I |-> 1]

-----------------------------------------------------------------------------
(* Distributions: what a sample statement can return. *)

\* infection_dist (distributions.py): a count of new infections among the
\* susceptible.
infection_dist_support(num_susceptible) == 0..num_susceptible
\* dist.Binomial(total_count, probs).sample()
Binomial_support(total_count) == 0..total_count
\* dist.ExtendedBinomial(total_count, probs).sample()
ExtendedBinomial_support(total_count) == 0..total_count

\* A sample site: pyro.sample(name, fn, obs=obs) and the value it took.
Site(name, step, fn, args, obs, value) ==
    [name |-> <<name, step>>, fn |-> fn, args |-> args, obs |-> obs,
     value |-> value]

\* pyro.sample(name, fn, obs=obs) returns obs when it is given and otherwise
\* the value drawn at the site.
sample(name, step, fn, args, obs, drawn) ==
    Site(name, step, fn, args, obs, IF obs # None THEN obs[1] ELSE drawn)

\* The values a site's distribution can produce.
Support(site) ==
    CASE site.fn = "infection_dist" ->
            infection_dist_support(site.args.num_susceptible)
      [] site.fn = "Binomial" -> Binomial_support(site.args.total_count)
      [] site.fn = "ExtendedBinomial" ->
            ExtendedBinomial_support(site.args.total_count)

\* An unobserved site holds a draw from its distribution.
Drawn(site) == site.obs # None \/ site.value \in Support(site)

\* The site called name among ss.
HasSite(ss, name) == \E i \in 1..Len(ss) : ss[i].name[1] = name
SiteNamed(ss, name) == ss[CHOOSE i \in 1..Len(ss) : ss[i].name[1] = name]

-----------------------------------------------------------------------------
(* seir.py: SimpleSEIRModel.transition_fwd.  draw holds the values the     *)
(* sampler produces at the four sites; the result is the updated state     *)
(* dict, the sites in the order they are sampled, and the exception        *)
(* raised, if any.                                                         *)

\* Sample flows between compartments.
SimpleSEIRModel_sample_flows(self, params, st, step, draw) ==
    << sample("S2E", step, "infection_dist",
              [individual_rate |-> [num |-> params.R0, den |-> params.tau_i],
               num_susceptible |-> st.S,
               num_infectious |-> st.I,
               population |-> self.population],
              None, draw.S2E),
       sample("E2I", step, "Binomial",
              [total_count |-> st.E, probs |-> [one_over |-> params.tau_e]],
              None, draw.E2I),
       sample("I2R", step, "Binomial",
              [total_count |-> st.I, probs |-> [one_over |-> params.tau_i]],
              None, draw.I2R) >>

\* A slip in the update: the exposed who turn infectious are not removed
\* from E.
SimpleSEIRModel_update_mutant(st, S2E, E2I, I2R) ==
    LET state1 == [st EXCEPT !.S = st.S - S2E]
        state2 == [state1 EXCEPT !.E = state1.E + S2E]
    IN [state2 EXCEPT !.I = state2.I + E2I - I2R]

\* Update compartments with flows: three assignments to the dict, in order.
SimpleSEIRModel_update(st, S2E, E2I, I2R) ==
    LET state1 == [st EXCEPT !.S = st.S - S2E]
        state2 == [state1 EXCEPT !.E = state1.E + S2E - E2I]
    IN [state2 EXCEPT !.I = state2.I + E2I - I2R]

\* A slip in the bound: data is read at t = duration.
SimpleSEIRModel_observe_mutant(self, params, st, E2I, step, drawn) ==
    LET obs == IF step <= self.duration THEN getitem(self.data, step)
               ELSE [raised |-> None, value |-> None]
    IN IF obs.raised # None THEN [raised |-> obs.raised, sites |-> <<>>]
       ELSE [raised |-> None,
             sites |-> << sample("obs", step, "ExtendedBinomial",
                                 [total_count |-> E2I, probs |-> params.rho],
                                 obs.value, drawn) >>]

\* Condition on observations; st is the updated state.
SimpleSEIRModel_observe(self, params, st, E2I, step, drawn) ==
    LET obs == IF step < self.duration THEN getitem(self.data, step)
               ELSE [raised |-> None, value |-> None]
    IN IF obs.raised # None THEN [raised |-> obs.raised, sites |-> <<>>]
       ELSE [raised |-> None,
             sites |-> << sample("obs", step, "ExtendedBinomial",
                                 [total_count |-> E2I, probs |-> params.rho],
                                 obs.value, drawn) >>]

SimpleSEIRModel_transition_fwd(self, params, st, step, draw) ==
    LET flows == SimpleSEIRModel_sample_flows(self, params, st, step, draw)
        S2E == SiteNamed(flows, "S2E").value
        E2I == SiteNamed(flows, "E2I").value
        I2R == SiteNamed(flows, "I2R").value
        updated == SimpleSEIRModel_update(st, S2E, E2I, I2R)
        observed == SimpleSEIRModel_observe(self, params, updated, E2I, step,
                                            draw.obs)
    IN [state |-> updated, sites |-> flows \o observed.sites,
        raised |-> observed.raised]

-----------------------------------------------------------------------------
(* seir.py: OverdispersedSEIRModel.transition_fwd.                         *)

OverdispersedSEIRModel_sample_flows(self, params, st, step, draw) ==
    << sample("E2I", step, "Binomial",
              [total_count |-> st.E, probs |-> [one_over |-> params.tau_e]],
              None, draw.E2I),
       sample("I2R", step, "Binomial",
              [total_count |-> st.I, probs |-> [one_over |-> params.tau_i]],
              None, draw.I2R),
       sample("S2E", step, "infection_dist",
              [individual_rate |-> [num |-> params.R0],
               num_susceptible |-> st.S,
               num_infectious |-> st.I,
               population |-> self.population,
               concentration |-> params.k],
              None, draw.S2E) >>

\* A slip in the update: the infectious grow by the wrong flow.
OverdispersedSEIRModel_update_mutant(st, S2E, E2I, I2R) ==
    LET state1 == [st EXCEPT !.S = st.S - S2E]
        state2 == [state1 EXCEPT !.E = state1.E + S2E - E2I]
    IN [state2 EXCEPT !.I = state2.I + S2E - I2R]

OverdispersedSEIRModel_update(st, S2E, E2I, I2R) ==
    LET state1 == [st EXCEPT !.S = st.S - S2E]
        state2 == [state1 EXCEPT !.E = state1.E + S2E - E2I]
    IN [state2 EXCEPT !.I = state2.I + E2I - I2R]

\* A slip in the observation model: the count is a compartment, not a flow.
OverdispersedSEIRModel_observe_mutant(self, params, st, E2I, step, drawn) ==
    LET obs == IF step < self.duration THEN getitem(self.data, step)
               ELSE [raised |-> None, value |-> None]
    IN IF obs.raised # None THEN [raised |-> obs.raised, sites |-> <<>>]
       ELSE [raised |-> None,
             sites |-> << sample("obs", step, "ExtendedBinomial",
                                 [total_count |-> st.I, probs |-> params.rho],
                                 obs.value, drawn) >>]

OverdispersedSEIRModel_observe(self, params, st, E2I, step, drawn) ==
    LET obs == IF step < self.duration THEN getitem(self.data, step)
               ELSE [raised |-> None, value |-> None]
    IN IF obs.raised # None THEN [raised |-> obs.raised, sites |-> <<>>]
       ELSE [raised |-> None,
             sites |-> << sample("obs", step, "ExtendedBinomial",
                                 [total_count |-> E2I, probs |-> params.rho],
                                 obs.value, drawn) >>]

OverdispersedSEIRModel_transition_fwd(self, params, st, step, draw) ==
    LET flows == OverdispersedSEIRModel_sample_flows(self, params, st, step, draw)
        S2E == SiteNamed(flows, "S2E").value
        E2I == SiteNamed(flows, "E2I").value
        I2R == SiteNamed(flows, "I2R").value
        updated == OverdispersedSEIRModel_update(st, S2E, E2I, I2R)
        observed == OverdispersedSEIRModel_observe(self, params, updated, E2I,
                                                   step, draw.obs)
    IN [state |-> updated, sites |-> flows \o observed.sites,
        raised |-> observed.raised]

-----------------------------------------------------------------------------
(* seir.py: transition_bwd.  Every site is conditioned; the result is the  *)
(* sites in order and the exception raised, if any.                        *)

\* A slip in the reversal: the inflow into E is forgotten.
SimpleSEIRModel_reverse_flows_mutant(before, curr) ==
    LET S2E == before.S - curr.S
        E2I == before.E - curr.E
        I2R == before.I - curr.I + E2I
    IN [S2E |-> S2E, E2I |-> E2I, I2R |-> I2R]

\* Reverse the flow computation.
SimpleSEIRModel_reverse_flows(before, curr) ==
    LET S2E == before.S - curr.S
        E2I == before.E - curr.E + S2E
        I2R == before.I - curr.I + E2I
    IN [S2E |-> S2E, E2I |-> E2I, I2R |-> I2R]

\* Condition on flows between compartments.
SimpleSEIRModel_condition_flows(self, params, before, flows, step) ==
    << sample("S2E", step, "infection_dist",
              [individual_rate |-> [num |-> params.R0, den |-> params.tau_i],
               num_susceptible |-> before.S,
               num_infectious |-> before.I,
               population |-> self.population],
              Some(flows.S2E), 0),
       sample("E2I", step, "ExtendedBinomial",
              [total_count |-> before.E, probs |-> [one_over |-> params.tau_e]],
              Some(flows.E2I), 0),
       sample("I2R", step, "ExtendedBinomial",
              [total_count |-> before.I, probs |-> [one_over |-> params.tau_i]],
              Some(flows.I2R), 0) >>

\* Condition on observations.
SimpleSEIRModel_condition_obs(self, params, E2I, step) ==
    LET obs == getitem(self.data, step)
    IN IF obs.raised # None THEN [raised |-> obs.raised, sites |-> <<>>]
       ELSE [raised |-> None,
             sites |-> << sample("obs", step, "ExtendedBinomial",
                                 [total_count |-> E2I, probs |-> params.rho],
                                 obs.value, 0) >>]

SimpleSEIRModel_transition_bwd(self, params, before, curr, step) ==
    LET flows == SimpleSEIRModel_reverse_flows(before, curr)
        conditioned == SimpleSEIRModel_condition_flows(self, params, before,
                                                       flows, step)
        observed == SimpleSEIRModel_condition_obs(self, params, flows.E2I, step)
    IN [sites |-> conditioned \o observed.sites, raised |-> observed.raised]

OverdispersedSEIRModel_reverse_flows(before, curr) ==
    LET S2E == before.S - curr.S
        E2I == before.E - curr.E + S2E
        I2R == before.I - curr.I + E2I
    IN [S2E |-> S2E, E2I |-> E2I, I2R |-> I2R]

OverdispersedSEIRModel_condition_flows(self, params, before, flows, step) ==
    << sample("S2E", step, "infection_dist",
              [individual_rate |-> [num |-> params.R0],
               num_susceptible |-> before.S,
               num_infectious |-> before.I,
               population |-> self.population,
               concentration |-> params.k],
              Some(flows.S2E), 0),
       sample("E2I", step, "ExtendedBinomial",
              [total_count |-> before.E, probs |-> [one_over |-> params.tau_e]],
              Some(flows.E2I), 0),
       sample("I2R", step, "ExtendedBinomial",
              [total_count |-> before.I, probs |-> [one_over |-> params.tau_i]],
              Some(flows.I2R), 0) >>

OverdispersedSEIRModel_condition_obs(self, params, E2I, step) ==
    LET obs == getitem(self.data, step)
    IN IF obs.raised # None THEN [raised |-> obs.raised, sites |-> <<>>]
       ELSE [raised |-> None,
             sites |-> << sample("obs", step, "ExtendedBinomial",
                                 [total_count |-> E2I, probs |-> params.rho],
                                 obs.value, 0) >>]

OverdispersedSEIRModel_transition_bwd(self, params, before, curr, step) ==
    LET flows == OverdispersedSEIRModel_reverse_flows(before, curr)
        conditioned == OverdispersedSEIRModel_condition_flows(self, params,
                                                              before, flows, step)
        observed == OverdispersedSEIRModel_condition_obs(self, params,
                                                         flows.E2I, step)
    IN [sites |-> conditioned \o observed.sites, raised |-> observed.raised]

-----------------------------------------------------------------------------
(* Dispatch on the class of the model object. *)

global_model(self) ==
    IF self.kind = "SimpleSEIRModel" THEN SimpleSEIRModel_global_model(self)
    ELSE OverdispersedSEIRModel_global_model(self)

initialize(self) ==
    IF self.kind = "SimpleSEIRModel" THEN SimpleSEIRModel_initialize(self)
    ELSE OverdispersedSEIRModel_initialize(self)

transition_fwd(self, st, step, draw) ==
    IF self.kind = "SimpleSEIRModel"
    THEN SimpleSEIRModel_transition_fwd(self, global_model(self), st, step, draw)
    ELSE OverdispersedSEIRModel_transition_fwd(self, global_model(self), st, step, draw)

transition_bwd(self, before, curr, step) ==
    IF self.kind = "SimpleSEIRModel"
    THEN SimpleSEIRModel_transition_bwd(self, global_model(self), before, curr, step)
    ELSE OverdispersedSEIRModel_transition_bwd(self, global_model(self), before, curr, step)

Kinds == {"SimpleSEIRModel", "OverdispersedSEIRModel"}

\* What the sampler can produce in a forward step from st: no flow exceeds
\* the compartment it leaves, and no observation the compartment it counts.
Draws(st) == [S2E : 0..st.S, E2I : 0..st.E, I2R : 0..st.I, obs : 0..st.E]

-----------------------------------------------------------------------------
(* The SEIR specification: construct a model, initialize it, simulate it   *)
(* forward through the data and Forecast steps beyond, and run the         *)
(* backward transition on a simulated pair of states inside the data.      *)

\* The parts of the state that a specification does not use.
SeirIdle ==
    /\ pc = "idle"
    /\ ctorArgs = None
    /\ seir = NoModel
    /\ raised = None
    /\ call = "none"
    /\ state = NoState
    /\ prev = NoState
    /\ t = 0
    /\ sites = <<>>
    /\ bwd = <<>>

ElboIdle ==
    /\ epc = "idle"
    /\ elbo = None
    /\ loss_args = None
    /\ handlers = <<>>
    /\ calls = <<>>
    /\ guide_tr = None
    /\ model_tr = None
    /\ model_terms = None
    /\ guide_terms = None
    /\ plate_vars = {}
    /\ model_measure_vars = {}
    /\ contracted_factors = <<>>
    /\ uncontracted_factors = <<>>
    /\ psp = None
    /\ contracted_costs = <<>>
    /\ costs = <<>>
    /\ targets = <<>>
    /\ logzq = None
    /\ tape_log_measures = <<>>
    /\ elbo_sum = None
    /\ returned = None

HmmIdle ==
    /\ mpc = "idle"
    /\ margs = None
    /\ Elbo = None
    /\ helbo = None
    /\ svi = None
    /\ nsteps = 0
    /\ mraised = None
    /\ mcalls = <<>>
    /\ chorales = None
    /\ sequences = None
    /\ lengths = None
    /\ num_observations = 0
    /\ logged = <<>>

SeirInit ==
    /\ ElboIdle /\ HmmIdle
    /\ pc = "new"
    /\ ctorArgs = None
    /\ seir = NoModel
    /\ raised = None
    /\ call = "none"
    /\ state = NoState
    /\ prev = NoState
    /\ t = 0
    /\ sites = <<>>
    /\ bwd = <<>>

\* SimpleSEIRModel(...) or OverdispersedSEIRModel(...)
Construct ==
    /\ pc = "new"
    /\ \E kind \in Kinds, population \in 1..MaxPop,
          incubation_time \in TimeInputs, recovery_time \in TimeInputs,
          data \in DataInputs :
          \E r \in {IF kind = "SimpleSEIRModel"
                    THEN SimpleSEIRModel_init(population, incubation_time,
                                              recovery_time, data)
                    ELSE OverdispersedSEIRModel_init(population, incubation_time,
                                                     recovery_time, data)} :
             /\ ctorArgs' = Some([kind |-> kind, population |-> population,
                              incubation_time |-> incubation_time,
                              recovery_time |-> recovery_time, data |-> data])
             /\ seir' = r.self
             /\ raised' = r.raised
             /\ pc' = IF r.raised = None THEN "constructed" ELSE "failed"
    /\ call' = "init"
    /\ UNCHANGED <<state, prev, t, sites, bwd, elboVars, hmmVars>>

\* state = model.initialize(params)
Initialize ==
    /\ pc = "constructed"
    /\ state' = initialize(seir)
    /\ pc' = "running"
    /\ call' = "initialize"
    /\ UNCHANGED <<ctorArgs, seir, raised, prev, t, sites, bwd, elboVars, hmmVars>>

\* model.transition_fwd(params, state, t) for the next t; the state dict is
\* updated in place.
TransitionFwd ==
    /\ pc = "running"
    /\ t < seir.duration + Forecast
    /\ \E draw \in Draws(state) :
          \E r \in {transition_fwd(seir, state, t, draw)} :
             /\ \A i \in 1..Len(r.sites) : Drawn(r.sites[i])
             /\ state' = r.state
             /\ sites' = r.sites
             /\ raised' = r.raised
             /\ pc' = IF r.raised = None THEN "running" ELSE "error"
    /\ prev' = state
    /\ t' = t + 1
    /\ bwd' = <<>>
    /\ call' = "fwd"
    /\ UNCHANGED <<ctorArgs, seir, elboVars, hmmVars>>

\* model.transition_bwd(params, prev, curr, t) on the states before and
\* after the last forward step.
TransitionBwd ==
    /\ pc = "running"
    /\ sites # <<>>
    /\ bwd = <<>>
    /\ \E r \in {transition_bwd(seir, prev, state, t - 1)} :
          /\ bwd' = r.sites
          /\ raised' = r.raised
          /\ pc' = IF r.raised = None THEN "running" ELSE "error"
    /\ call' = "bwd"
    /\ UNCHANGED <<ctorArgs, seir, state, prev, t, sites, elboVars, hmmVars>>

Next == Construct \/ Initialize \/ TransitionFwd \/ TransitionBwd

Spec == SeirInit /\ [][Next]_vars

-----------------------------------------------------------------------------
(* The round trip: transition_fwd from any compartments with the three     *)
(* flow sites conditioned on any values, then transition_bwd on the pair.  *)

RoundTripModels ==
    {SimpleSEIRModel_init(MaxPop, PyFloat(15), PyFloat(50), <<0, 1>>).self,
     OverdispersedSEIRModel_init(MaxPop, PyFloat(15), PyFloat(50), <<0, 1>>).self}

RoundTripInit ==
    /\ ElboIdle /\ HmmIdle
    /\ pc = "round trip"
    /\ ctorArgs = None
    /\ seir \in RoundTripModels
    /\ raised = None
    /\ call = "none"
    /\ state \in [S : 0..FlowBound, E : 0..FlowBound, I : 0..FlowBound]
    /\ prev = NoState
    /\ t \in 0..(seir.duration - 1)
    /\ sites = <<>>
    /\ bwd = <<>>

ConditionedFwd ==
    /\ pc = "round trip"
    /\ call = "none"
    /\ \E draw \in [S2E : -1..FlowBound, E2I : -1..FlowBound,
                   I2R : -1..FlowBound, obs : {0}] :
          \E r \in {transition_fwd(seir, state, t, draw)} :
             /\ state' = r.state
             /\ sites' = r.sites
             /\ raised' = r.raised
    /\ prev' = state
    /\ t' = t + 1
    /\ call' = "fwd"
    /\ UNCHANGED <<pc, ctorArgs, seir, bwd, elboVars, hmmVars>>

ReverseBwd ==
    /\ pc = "round trip"
    /\ call = "fwd"
    /\ \E r \in {transition_bwd(seir, prev, state, t - 1)} :
          /\ bwd' = r.sites
          /\ raised' = r.raised
    /\ call' = "bwd"
    /\ UNCHANGED <<pc, ctorArgs, seir, state, prev, t, sites, elboVars, hmmVars>>

RoundTripNext == ConditionedFwd \/ ReverseBwd

SpecRoundTrip == RoundTripInit /\ [][RoundTripNext]_vars

-----------------------------------------------------------------------------
(* Properties of the SEIR models. *)

\* The implicit compartment: R = population - S - E - I.
R(st) == seir.population - st.S - st.E - st.I

FlowNames == {"S2E", "E2I", "I2R"}

\* C1: from initialize() on, through every forward step whose flows are
\* drawn from their distributions, no compartment is negative and
\* S + E + I <= population, so that 0 <= R <= population and
\* S + E + I + R = population.
C1_Compartments ==
    pc = "running" =>
        /\ state.S >= 0 /\ state.E >= 0 /\ state.I >= 0
        /\ state.S + state.E + state.I <= seir.population
        /\ R(state) >= 0 /\ R(state) <= seir.population
        /\ state.S + state.E + state.I + R(state) = seir.population

C1_Witness ==
    /\ pc = "running" /\ call = "fwd" /\ t >= 2
    /\ state.E >= 1 /\ R(state) >= 1

\* C2: across every forward step S does not increase, R does not decrease,
\* the changes are dS = -S2E, dE = S2E - E2I, dI = E2I - I2R, dR = I2R, and
\* each of the three flows is sampled from the compartments as they were at
\* the start of the step, whatever the order of the sites.
C2_Flows ==
    [][call' = "fwd" =>
        LET S2E == SiteNamed(sites', "S2E")
            E2I == SiteNamed(sites', "E2I")
            I2R == SiteNamed(sites', "I2R")
        IN /\ \A n \in FlowNames : HasSite(sites', n)
           /\ state'.S <= state.S
           /\ R(state') >= R(state)
           /\ state'.S - state.S = -S2E.value
           /\ state'.E - state.E = S2E.value - E2I.value
           /\ state'.I - state.I = E2I.value - I2R.value
           /\ R(state') - R(state) = I2R.value
           /\ S2E.args.num_susceptible = state.S
           /\ S2E.args.num_infectious = state.I
           /\ E2I.args.total_count = state.E
           /\ I2R.args.total_count = state.I]_vars

C2_Witness ==
    /\ call = "fwd" /\ seir.kind = "OverdispersedSEIRModel"
    /\ \A n \in FlowNames : SiteNamed(sites, n).value >= 1

\* C3: the flows transition_bwd reconstructs from the states before and
\* after a transition_fwd step are the flows of that step, for any
\* compartments and any values of the three flows, in both models.
C3_RoundTrip ==
    call = "bwd" =>
        \A n \in FlowNames :
            /\ HasSite(bwd, n)
            /\ SiteNamed(bwd, n).obs = Some(SiteNamed(sites, n).value)

C3_Witness ==
    /\ call = "bwd" /\ seir.kind = "OverdispersedSEIRModel"
    /\ SiteNamed(bwd, "S2E").value = 2
    /\ SiteNamed(bwd, "E2I").value = 1
    /\ SiteNamed(bwd, "I2R").value = -1

\* C4: construction succeeds only if incubation_time and recovery_time are
\* both floats greater than 1; otherwise it fails with an assertion error;
\* on success both are stored unchanged and duration is len(data).
FloatAboveOne(x) == x.type = "float" /\ x.tenths > 10

C4_Construction ==
    ctorArgs # None =>
        LET a == ctorArgs[1]
            accepted == FloatAboveOne(a.incubation_time)
                        /\ FloatAboveOne(a.recovery_time)
        IN /\ pc # "failed" => accepted
           /\ ~accepted => pc = "failed" /\ raised = Some("AssertionError")
           /\ pc # "failed" =>
                /\ seir.kind = a.kind
                /\ seir.incubation_time = a.incubation_time
                /\ seir.recovery_time = a.recovery_time
                /\ seir.duration = Len(a.data)

C4_Witness ==
    /\ pc = "constructed"
    /\ seir.incubation_time = PyFloat(15)
    /\ seir.recovery_time = PyFloat(50)
    /\ seir.duration = 2

\* C5: in both transitions of both models the total count of obs_t is the
\* E2I flow of the same step, and an observation that is sampled rather
\* than conditioned lies between 0 and that flow.
ObsCountsE2I(ss) ==
    HasSite(ss, "obs") =>
        LET obs == SiteNamed(ss, "obs")
            E2I == SiteNamed(ss, "E2I")
        IN /\ obs.fn = "ExtendedBinomial"
           /\ obs.args.total_count = E2I.value
           /\ obs.name[2] = E2I.name[2]
           /\ obs.name[2] = t - 1
           /\ obs.obs = None => obs.value >= 0 /\ obs.value <= E2I.value

C5_ObsOfE2I == ObsCountsE2I(sites) /\ ObsCountsE2I(bwd)

C5_Witness ==
    /\ call = "fwd" /\ HasSite(sites, "obs")
    /\ SiteNamed(sites, "obs").obs = None
    /\ SiteNamed(sites, "obs").value = 1
    /\ state.I # 1

\* C6: transition_fwd conditions obs_t on data[t] when t < duration and
\* samples it when t >= duration, and never raises an IndexError;
\* transition_bwd reads data[t] whatever t is, so it conditions obs_t on
\* data[t] inside the series and raises IndexError beyond it.
C6_ObsConditioning ==
    /\ ~(call = "fwd" /\ raised # None)
    /\ sites # <<>> =>
        /\ HasSite(sites, "obs")
        /\ IF t - 1 < seir.duration
           THEN /\ t - 1 < Len(seir.data)
                /\ SiteNamed(sites, "obs").obs = Some(seir.data[t])
           ELSE SiteNamed(sites, "obs").obs = None
    /\ call = "bwd" =>
        IF t - 1 < Len(seir.data)
        THEN /\ raised = None
             /\ HasSite(bwd, "obs")
             /\ SiteNamed(bwd, "obs").obs = Some(seir.data[t])
        ELSE raised = Some("IndexError") /\ ~HasSite(bwd, "obs")

C6_Witness ==
    /\ call = "fwd" /\ seir.duration = 2 /\ t = 3
    /\ SiteNamed(sites, "obs").obs = None

-----------------------------------------------------------------------------
(* trace_elbo.py: funsors and execution traces.                            *)

\* A funsor, as far as the estimator looks at it: what it denotes (a site's
\* log_prob, log_measure or value, or a sum-product of parts), its named
\* inputs, and a scalar coefficient.
Funsor(kind, site, inputs) ==
    [kind |-> kind, site |-> site, parts |-> {}, inputs |-> inputs, coef |-> 1]

\* c * f and -f
Times(c, f) == [f EXCEPT !.coef = c * @]
Negate(f) == Times(-1, f)

Particles == "num_particles_vectorized"

\* A frame of a cond_indep_stack.
Frame(name, vectorized) == [name |-> name, vectorized |-> vectorized]

VectorizedNames(stack) ==
    {stack[i].name : i \in {j \in 1..Len(stack) : stack[j].vectorized}}

NoFunsors ==
    [log_measure |-> None, value |-> Funsor("value", "", {}),
     log_prob |-> Funsor("log_prob", "", {}), scale |-> 1]

\* A node of a trace that is not a scored sample site: a param node, a
\* subsampling site, or a site marked _do_not_score.
PlainNode(name, type, fn, do_not_score) ==
    [name |-> name, type |-> type, value |-> {}, fn |-> fn,
     infer_do_not_score |-> do_not_score, cond_indep_stack |-> <<>>,
     funsor |-> NoFunsors, is_observed |-> FALSE,
     replay_active |-> FALSE, replay_skipped |-> FALSE]

\* A markov_chain node: its value is the set of steps, each a tuple of names.
MarkovNode(name, steps) ==
    [PlainNode(name, "markov_chain", "", FALSE) EXCEPT !.value = steps]

\* A sample site.  Its funsors have the site's own name as an input when the
\* site carries a measure; its log_prob has the inputs deps besides; every
\* funsor of the site has the vectorized plates of its stack as inputs.
SampleNode(name, stack, flags, deps, scale) ==
    LET plates == VectorizedNames(stack)
        own == IF flags.measure THEN {name} ELSE {}
    IN [name |-> name, type |-> "sample", value |-> {}, fn |-> "Distribution",
        infer_do_not_score |-> FALSE, cond_indep_stack |-> stack,
        funsor |-> [log_measure |->
                        IF flags.measure
                        THEN Some(Funsor("log_measure", name, own \cup plates))
                        ELSE None,
                    value |-> Funsor("value", name,
                                     own \cup deps \cup plates),
                    log_prob |-> Funsor("log_prob", name,
                                        own \cup deps \cup plates),
                    scale |-> scale],
        is_observed |-> flags.observed,
        replay_active |-> flags.active,
        replay_skipped |-> flags.skipped]

HasNode(tr, name) == \E i \in 1..Len(tr) : tr[i].name = name
NodeNamed(tr, name) == tr[CHOOSE i \in 1..Len(tr) : tr[i].name = name]

\* step[1:-1]
Middle(step) == {step[i] : i \in 2..(Len(step) - 1)}

-----------------------------------------------------------------------------
(* trace_elbo.py: terms_from_trace.                                        *)

EmptyTerms ==
    [log_factors |-> <<>>, log_measures |-> <<>>, scale |-> 1,
     plate_vars |-> {}, measure_vars |-> {}, plate_to_step |-> <<>>]

\* One iteration of the loop over tr.nodes: the terms so far and the trace
\* (the loop rescales a node's log_prob in place).
terms_from_node(terms, tr, i) ==
    LET node == tr[i]
        t1 == IF node.type = "markov_chain"
              THEN [terms EXCEPT
                      !.plate_to_step = (node.name :> node.value) @@ @,
                      !.measure_vars = @ \cup
                          {var \in UNION {Middle(step) : step \in node.value} :
                              NodeNamed(tr, var).funsor.log_measure # None}]
              ELSE terms
    IN IF \/ node.type # "sample"
          \/ node.fn = "_Subsample"
          \/ node.infer_do_not_score
       THEN [terms |-> t1, tr |-> tr]
       ELSE
       LET t2 == [t1 EXCEPT !.plate_vars =
                                @ \cup VectorizedNames(node.cond_indep_stack)]
           t3 == IF node.funsor.log_measure # None
                 THEN [t2 EXCEPT
                         !.log_measures = Append(@, node.funsor.log_measure[1]),
                         !.measure_vars = @ \cup
                             ((node.funsor.value.inputs \cup {node.name})
                              \ t2.plate_vars)]
                 ELSE t2
           common == /\ node.replay_active
                     /\ node.funsor.log_prob.inputs \cap t3.measure_vars # {}
                     /\ node.funsor.scale # 1
           t4 == IF common THEN [t3 EXCEPT !.scale = node.funsor.scale] ELSE t3
           node1 == IF common THEN node
                    ELSE [node EXCEPT !.funsor.log_prob =
                                          Times(node.funsor.scale, @)]
           t5 == IF node.is_observed \/ ~node.replay_skipped
                 THEN [t4 EXCEPT !.log_factors = Append(@, node1.funsor.log_prob)]
                 ELSE t4
       IN [terms |-> t5, tr |-> [tr EXCEPT ![i] = node1]]

RECURSIVE terms_loop(_, _, _)
terms_loop(terms, tr, i) ==
    IF i > Len(tr) THEN [terms |-> terms, tr |-> tr]
    ELSE LET r == terms_from_node(terms, tr, i)
         IN terms_loop(r.terms, r.tr, i + 1)

\* The terms and the trace as the function leaves it.
terms_from_trace(tr) ==
    LET r == terms_loop(EmptyTerms, tr, 1)
    IN [terms |-> [r.terms EXCEPT !.plate_to_step =
                      @ @@ [plate \in r.terms.plate_vars |-> {}]],
        tr |-> r.tr]

-----------------------------------------------------------------------------
(* funsor.sum_product.partial_sum_product, as far as the estimator relies  *)
(* on it: the factors that share a variable to eliminate are multiplied    *)
(* and that variable summed out; one result per group of linked factors.   *)

Linked(factors, sum_vars, S) ==
    S \cup {j \in 1..Len(factors) :
              \E i \in S :
                  factors[i].inputs \cap factors[j].inputs \cap sum_vars # {}}

RECURSIVE Component(_, _, _)
Component(factors, sum_vars, S) ==
    IF Linked(factors, sum_vars, S) = S THEN S
    ELSE Component(factors, sum_vars, Linked(factors, sum_vars, S))

MinOf(S) == CHOOSE x \in S : \A y \in S : x <= y

RECURSIVE InOrder(_)
InOrder(components) ==
    IF components = {} THEN <<>>
    ELSE LET c == CHOOSE c \in components :
                      \A d \in components : MinOf(c) <= MinOf(d)
         IN <<c>> \o InOrder(components \ {c})

partial_sum_product(sum_op, prod_op, factors, plates, eliminate) ==
    LET sum_vars == eliminate \ plates
        components == InOrder({Component(factors, sum_vars, {i}) :
                                  i \in 1..Len(factors)})
    IN [k \in 1..Len(components) |->
          [kind |-> "sum_product", site |-> "",
           parts |-> {<<factors[i].kind, factors[i].site, factors[i].coef>> :
                         i \in components[k]},
           inputs |-> UNION {factors[i].inputs : i \in components[k]}
                      \ sum_vars,
           coef |-> 1]]

-----------------------------------------------------------------------------
(* trace_elbo.py: Trace_ELBO.differentiable_loss, statement by statement.  *)

NoDim == [kind |-> "none", value |-> 0]
Inf == [kind |-> "inf", value |-> 1]
IntDim(n) == [kind |-> "int", value |-> n]

\* -d
Minus(d) == [d EXCEPT !.value = -@]

\* first_available_dim of the enum handler.
first_available_dim(self) ==
    IF self.max_plate_nesting.kind # "none"
       /\ self.max_plate_nesting.kind # "inf"
    THEN IntDim(-self.max_plate_nesting.value - 1)
    ELSE NoDim

Handler(name, dim, size) == [name |-> name, dim |-> dim, size |-> size]

\* The handlers of the with statement, in the order they are entered.
loss_context(self) ==
    << Handler("enum", first_available_dim(self), 0),
       Handler("provenance", NoDim, 0),
       IF self.num_particles > 1
       THEN Handler("plate:" \o Particles, Minus(self.max_plate_nesting),
                    self.num_particles)
       ELSE Handler("ExitStack", NoDim, 0) >>

Call(fn, program, replay, withargs, active) ==
    [fn |-> fn, program |-> program, replay |-> replay, args |-> withargs,
     handlers |-> active]

\* trace(replay(model, trace=guide_tr)).get_trace(*args, **kwargs)
replayed_model_mutant(against, withargs, active) ==
    Call("get_trace", "model", None, withargs, active)

replayed_model(against, withargs, active) ==
    Call("get_trace", "model", against, withargs, active)

model_measure_vars_of_mutant(mterms, gterms) == mterms.measure_vars

\* model_terms["measure_vars"] - guide_terms["measure_vars"]
model_measure_vars_of(mterms, gterms) ==
    mterms.measure_vars \ gterms.measure_vars

\* The loop that sorts the model's log factors into two lists.
split_factors(log_factors, measure_vars) ==
    LET touches(f) == measure_vars \cap f.inputs # {}
        misses(f) == ~touches(f)
    IN [contracted |-> SelectSeq(log_factors, touches),
        uncontracted |-> SelectSeq(log_factors, misses)]

\* costs = contracted_costs + uncontracted_factors, then the guide's costs.
costs_of(ccosts, ufactors, gterms) ==
    ccosts \o ufactors
    \o [i \in 1..Len(gterms.log_factors) |-> Negate(gterms.log_factors[i])]

-----------------------------------------------------------------------------
(* The traces get_trace can return.  The handlers that build them are not  *)
(* part of this model; a trace is any sequence of nodes of the shapes      *)
(* terms_from_trace distinguishes.                                         *)

\* Whether a site carries a log_measure, is observed, is under replay, and
\* was skipped by replay (it is not in the guide).  A log_measure is found
\* only at sites that are not replayed or observed.
ModelFlags ==
    {f \in [measure : BOOLEAN, observed : BOOLEAN, active : BOOLEAN,
            skipped : BOOLEAN] :
        /\ f.skipped => f.active
        /\ f.measure => ~f.observed /\ (~f.active \/ f.skipped)}

GuideFlags ==
    {f \in ModelFlags : ~f.observed /\ ~f.active /\ ~f.skipped}

\* The stacks a site can be in: no plate, a vectorized plate, a sequential
\* plate; inside the particle plate when there is one.
Outer(self) ==
    IF self.num_particles > 1 THEN <<Frame(Particles, TRUE)>> ELSE <<>>

Stacks(self) ==
    {Outer(self), Outer(self) \o <<Frame("data", TRUE)>>,
     Outer(self) \o <<Frame("sequences", FALSE)>>}

\* A stack and the scale of a site in it: a plate may subsample.
ScaledStacks(self) ==
    {<<Outer(self), 1>>, <<Outer(self) \o <<Frame("data", TRUE)>>, 1>>,
     <<Outer(self) \o <<Frame("data", TRUE)>>, 2>>}

\* The inputs a site's log_prob can have besides its own name and plates:
\* the name of an upstream site whose value is lazy.
Deps(name, f) ==
    IF f.measure THEN {{}}
    ELSE IF f.active /\ ~f.skipped THEN {{}, {name}}
    ELSE {{}}

Absent == PlainNode("", "absent", "", FALSE)

Present(nodes) ==
    LET there(n) == n.type # "absent" IN SelectSeq(nodes, there)

GuideTraces(self) ==
    {Present(<<x>>) :
        x \in {Absent}
              \cup {SampleNode("x", st, f, {}, 1) :
                       st \in {Outer(self),
                               Outer(self) \o <<Frame("data", TRUE)>>},
                       f \in GuideFlags}}

XNodes(self) ==
    UNION {{SampleNode("x", st, f, deps, 1) : deps \in Deps("x", f)} :
              st \in Stacks(self), f \in {g \in ModelFlags : ~g.observed}}

YNodes(self) ==
    {SampleNode("y", ss[1], f, deps, ss[2]) :
        ss \in ScaledStacks(self), f \in ModelFlags, deps \in {{}, {"x"}}}

ModelTraces(self) ==
    {Present(<<x, y, m>>) :
        x \in {Absent, PlainNode("x", "param", "", FALSE),
               PlainNode("x", "sample", "_Subsample", FALSE),
               PlainNode("x", "sample", "Distribution", TRUE)}
              \cup XNodes(self),
        y \in {Absent} \cup YNodes(self),
        m \in {Absent, MarkovNode("time", {<<"x_prev", "x", "x_curr">>})}}

ElboInputs ==
    [num_particles : 1..MaxParticles, max_plate_nesting : {Inf, IntDim(2)}]

-----------------------------------------------------------------------------
(* The specification of one call of differentiable_loss.                   *)

ElboInit ==
    /\ SeirIdle /\ HmmIdle
    /\ epc = "with"
    /\ elbo \in ElboInputs
    /\ loss_args = Some(<<"args", "kwargs">>)
    /\ handlers = <<>>
    /\ calls = <<>>
    /\ guide_tr = None
    /\ model_tr = None
    /\ model_terms = None
    /\ guide_terms = None
    /\ plate_vars = {}
    /\ model_measure_vars = {}
    /\ contracted_factors = <<>>
    /\ uncontracted_factors = <<>>
    /\ psp = None
    /\ contracted_costs = <<>>
    /\ costs = <<>>
    /\ targets = <<>>
    /\ logzq = None
    /\ tape_log_measures = <<>>
    /\ elbo_sum = None
    /\ returned = None

\* with enum(...), provenance(), plate(...) or ExitStack():
EnterContext ==
    /\ epc = "with"
    /\ handlers' = loss_context(elbo)
    /\ epc' = "trace guide"
    /\ UNCHANGED <<elbo, loss_args, calls, guide_tr, model_tr, model_terms,
                   guide_terms, plate_vars, model_measure_vars,
                   contracted_factors, uncontracted_factors, psp,
                   contracted_costs, costs, rbVars, seirVars, hmmVars>>

\* guide_tr = trace(guide).get_trace(*args, **kwargs)
TraceGuide ==
    /\ epc = "trace guide"
    /\ \E tr \in GuideTraces(elbo) : guide_tr' = Some(tr)
    /\ calls' = Append(calls, Call("get_trace", "guide", None, loss_args,
                                   handlers))
    /\ epc' = "trace model"
    /\ UNCHANGED <<elbo, loss_args, handlers, model_tr, model_terms,
                   guide_terms, plate_vars, model_measure_vars,
                   contracted_factors, uncontracted_factors, psp,
                   contracted_costs, costs, rbVars, seirVars, hmmVars>>

\* model_tr = trace(replay(model, trace=guide_tr)).get_trace(*args, **kwargs)
\* and the end of the with block.
TraceModel ==
    /\ epc = "trace model"
    /\ \E tr \in ModelTraces(elbo) :
          /\ HasNode(tr, "time") => HasNode(tr, "x")
          /\ model_tr' = Some(tr)
    /\ calls' = Append(calls, replayed_model(guide_tr, loss_args, handlers))
    /\ handlers' = <<>>
    /\ epc' = "model terms"
    /\ UNCHANGED <<elbo, loss_args, guide_tr, model_terms, guide_terms,
                   plate_vars, model_measure_vars, contracted_factors,
                   uncontracted_factors, psp, contracted_costs, costs,
                   rbVars, seirVars, hmmVars>>

\* model_terms = terms_from_trace(model_tr)
ModelTerms ==
    /\ epc = "model terms"
    /\ \E r \in {terms_from_trace(model_tr[1])} :
          /\ model_terms' = Some(r.terms)
          /\ model_tr' = Some(r.tr)
    /\ calls' = Append(calls, Call("terms_from_trace", "model", None, None,
                                   handlers))
    /\ epc' = "guide terms"
    /\ UNCHANGED <<elbo, loss_args, handlers, guide_tr, guide_terms,
                   plate_vars, model_measure_vars, contracted_factors,
                   uncontracted_factors, psp, contracted_costs, costs,
                   rbVars, seirVars, hmmVars>>

\* guide_terms = terms_from_trace(guide_tr)
GuideTerms ==
    /\ epc = "guide terms"
    /\ \E r \in {terms_from_trace(guide_tr[1])} :
          /\ guide_terms' = Some(r.terms)
          /\ guide_tr' = Some(r.tr)
    /\ calls' = Append(calls, Call("terms_from_trace", "guide", None, None,
                                   handlers))
    /\ epc' = "contract"
    /\ UNCHANGED <<elbo, loss_args, handlers, model_tr, model_terms,
                   plate_vars, model_measure_vars, contracted_factors,
                   uncontracted_factors, psp, contracted_costs, costs,
                   rbVars, seirVars, hmmVars>>

\* plate_vars, model_measure_vars, and the block that contracts the model's
\* auxiliary variables.
Contract ==
    /\ epc = "contract"
    /\ \E pv \in {(guide_terms[1].plate_vars \cup model_terms[1].plate_vars)
                  \ {Particles}},
          mmv \in {model_measure_vars_of(model_terms[1], guide_terms[1])} :
          \E split \in {split_factors(model_terms[1].log_factors, mmv)} :
             \E pcall \in {[sum_op |-> "logaddexp", prod_op |-> "add",
                           factors |-> model_terms[1].log_measures
                                       \o split.contracted,
                           plates |-> pv, eliminate |-> mmv]} :
                /\ plate_vars' = pv
                /\ model_measure_vars' = mmv
                /\ contracted_factors' = split.contracted
                /\ uncontracted_factors' = split.uncontracted
                /\ psp' = Some(pcall)
                /\ \E results \in {partial_sum_product(
                                      pcall.sum_op, pcall.prod_op, pcall.factors,
                                      pcall.plates, pcall.eliminate)} :
                      contracted_costs' =
                          [i \in 1..Len(results) |->
                              Times(model_terms[1].scale, results[i])]
    /\ epc' = "costs"
    /\ UNCHANGED <<elbo, loss_args, handlers, calls, guide_tr, model_tr,
                   model_terms, guide_terms, costs, rbVars, seirVars, hmmVars>>

\* costs = contracted_costs + uncontracted_factors; costs += [-f for f in ...]
Costs ==
    /\ epc = "costs"
    /\ costs' = costs_of(contracted_costs, uncontracted_factors, guide_terms[1])
    /\ epc' = "targets"
    /\ UNCHANGED <<elbo, loss_args, handlers, calls, guide_tr, model_tr,
                   model_terms, guide_terms, plate_vars, model_measure_vars,
                   contracted_factors, uncontracted_factors, psp,
                   contracted_costs, rbVars, seirVars, hmmVars>>

\* Constant(cost.inputs, funsor.Tensor(torch.tensor(0.0)))
Constant(inputs) == [Funsor("Constant", "", inputs) EXCEPT !.coef = 0]

\* A dict, as the sequence of its items in insertion order.
Item(key, value) == [key |-> key, value |-> value]
HasKey(dict, key) == \E i \in 1..Len(dict) : dict[i].key = key
Lookup(dict, key) == dict[CHOOSE i \in 1..Len(dict) : dict[i].key = key].value
Values(dict) == [i \in 1..Len(dict) |-> dict[i].value]

RECURSIVE targets_loop(_, _, _)
targets_loop(cs, i, dict) ==
    IF i > Len(cs) THEN dict
    ELSE targets_loop(cs, i + 1,
                      IF HasKey(dict, cs[i].inputs) THEN dict
                      ELSE Append(dict, Item(cs[i].inputs,
                                             Constant(cs[i].inputs))))

targets_of_mutant(cs) ==
    [i \in 1..Len(cs) |-> Item(cs[i].inputs, Constant(cs[i].inputs))]

\* for cost in costs: if cost.input_vars not in targets: targets[...] = ...
targets_of(cs) == targets_loop(cs, 1, <<>>)

\* tape.adjoint(sum_op, prod_op, logzq, targets): a dict with one log measure
\* for each target.
tape_adjoint(target_values) ==
    [i \in 1..Len(target_values) |->
        Item(target_values[i],
             Funsor("adjoint", "", target_values[i].inputs))]

\* One iteration of the last loop: the Integrate term of a cost and the
\* plates it is reduced over.
elbo_term(cost, targets_dict, log_measures, plates) ==
    LET target == Lookup(targets_dict, cost.inputs)
    IN [target |-> target,
        log_measure |-> Lookup(log_measures, target),
        integrand |-> cost,
        measure_vars |-> (cost.inputs \ plates) \ {Particles},
        reduced |-> plates \cap cost.inputs]

\* -to_data(apply_optimizer(elbo))
negated(value) == [sign |-> -1, of |-> value]

\* targets, logzq under the tape, and log_measures = tape.adjoint(...)
Targets ==
    /\ epc = "targets"
    /\ \E dict \in {targets_of(costs)} :
          /\ targets' = dict
          /\ logzq' = Some([sum_op |-> "logaddexp", prod_op |-> "add",
                            factors |-> guide_terms[1].log_measures
                                        \o Values(dict),
                            plates |-> plate_vars,
                            eliminate |-> plate_vars
                                          \cup guide_terms[1].measure_vars])
          /\ tape_log_measures' = tape_adjoint(Values(dict))
    /\ epc' = "integrate"
    /\ UNCHANGED <<elbo, loss_args, handlers, calls, guide_tr, model_tr,
                   model_terms, guide_terms, plate_vars, model_measure_vars,
                   contracted_factors, uncontracted_factors, psp,
                   contracted_costs, costs, elbo_sum, returned, seirVars,
                   hmmVars>>

\* The loop that adds one term for each cost, and the mean over particles.
Integrate ==
    /\ epc = "integrate"
    /\ elbo_sum' = Some([terms |-> [i \in 1..Len(costs) |->
                                       elbo_term(costs[i], targets,
                                                 tape_log_measures,
                                                 plate_vars)],
                         reduce |-> "mean"])
    /\ epc' = "return"
    /\ UNCHANGED <<elbo, loss_args, handlers, calls, guide_tr, model_tr,
                   model_terms, guide_terms, plate_vars, model_measure_vars,
                   contracted_factors, uncontracted_factors, psp,
                   contracted_costs, costs, targets, logzq,
                   tape_log_measures, returned, seirVars, hmmVars>>

\* return -to_data(apply_optimizer(elbo))
Return ==
    /\ epc = "return"
    /\ returned' = Some(negated(elbo_sum[1]))
    /\ epc' = "done"
    /\ UNCHANGED <<elbo, loss_args, handlers, calls, guide_tr, model_tr,
                   model_terms, guide_terms, plate_vars, model_measure_vars,
                   contracted_factors, uncontracted_factors, psp,
                   contracted_costs, costs, targets, logzq,
                   tape_log_measures, elbo_sum, seirVars, hmmVars>>

ElboNext ==
    EnterContext \/ TraceGuide \/ TraceModel \/ ModelTerms \/ GuideTerms
    \/ Contract \/ Costs \/ Targets \/ Integrate \/ Return

SpecELBO == ElboInit /\ [][ElboNext]_vars

-----------------------------------------------------------------------------
(* Properties of Trace_ELBO.differentiable_loss.                           *)

Range(seq) == {seq[i] : i \in 1..Len(seq)}

HandlerNames(active) == {active[i].name : i \in 1..Len(active)}

\* C7: differentiable_loss traces the guide first, then the model replayed
\* against that guide trace, both with the same arguments and inside the
\* same enum/provenance context; terms_from_trace is called on either trace
\* only after both traces are complete.
C7_TraceOrder ==
    /\ Len(calls) >= 1 =>
          /\ calls[1].fn = "get_trace" /\ calls[1].program = "guide"
          /\ calls[1].replay = None
          /\ {"enum", "provenance"} \subseteq HandlerNames(calls[1].handlers)
    /\ Len(calls) >= 2 =>
          /\ calls[2].fn = "get_trace" /\ calls[2].program = "model"
          /\ calls[2].replay # None
          /\ epc = "model terms" => calls[2].replay = guide_tr
          /\ calls[2].args = calls[1].args
          /\ calls[2].handlers = calls[1].handlers
    /\ \A i \in 1..Len(calls) :
          calls[i].fn = "terms_from_trace" =>
              /\ i > 2
              /\ guide_tr # None /\ model_tr # None
    /\ (model_terms # None \/ guide_terms # None) => Len(calls) > 2

C7_Witness ==
    /\ epc = "targets"
    /\ Len(calls) = 4
    /\ calls[2].replay[1] # <<>>
    /\ Len(calls[2].handlers) = 3
    /\ calls[3].fn = "terms_from_trace" /\ calls[4].fn = "terms_from_trace"

\* C8: the partial sum-product eliminates exactly the model's measure
\* variables that are not guide measure variables; each model log factor is
\* in exactly one of the two groups, contracted iff its inputs intersect
\* that set; all model log measures join the contracted factors in the
\* sum-product; the uncontracted factors enter the costs unchanged.
C8_Contraction ==
    epc \in {"costs", "targets"} =>
        LET eliminate == model_terms[1].measure_vars
                         \ guide_terms[1].measure_vars
            factors == model_terms[1].log_factors
        IN /\ psp[1].eliminate = eliminate
           /\ Len(contracted_factors) + Len(uncontracted_factors)
                 = Len(factors)
           /\ \A f \in Range(factors) :
                 /\ f \in Range(contracted_factors)
                       <=> f.inputs \cap eliminate # {}
                 /\ f \in Range(uncontracted_factors)
                       <=> f.inputs \cap eliminate = {}
           /\ Range(contracted_factors) \cup Range(uncontracted_factors)
                 \subseteq Range(factors)
           /\ psp[1].factors = model_terms[1].log_measures
                               \o contracted_factors
           /\ epc = "targets" =>
                 SubSeq(costs, Len(contracted_costs) + 1,
                        Len(contracted_costs) + Len(uncontracted_factors))
                     = uncontracted_factors

C8_Witness ==
    /\ epc = "targets"
    /\ contracted_factors # <<>>
    /\ uncontracted_factors # <<>>
    /\ model_terms[1].log_measures # <<>>
    /\ model_terms[1].measure_vars \cap guide_terms[1].measure_vars # {}
    /\ psp[1].eliminate # {}

-----------------------------------------------------------------------------
(* examples/contrib/funsor/hmm.py: main(args).                             *)

NotImplementedError == Some("NotImplementedError")

\* The keys of the dictionary models.
ModelNames == {"0", "1", "2", "3", "4", "5", "6", "7"}

\* models[name]
models(name) == [partial |-> FALSE, func |-> "model_" \o name]
model_0 == models("0")

\* functools.partial(model, args=args): a new object wrapping the function.
functools_partial(func) == [partial |-> TRUE, func |-> func.func]

\* The command lines main is run with.
MainArgs ==
    [model : ModelNames, tmc : BOOLEAN, jit : BOOLEAN, funsor : BOOLEAN,
     print_shapes : BOOLEAN, time_compilation : {FALSE},
     num_steps : 0..MaxSteps, batch_size : {8},
     truncate : {None, Some(0), Some(1)}]

\* A split of the data set: the tensor of sequences, by its shape, and the
\* length of each sequence.
Split(sequence_lengths) ==
    [sequences |-> [shape0 |-> Len(sequence_lengths), shape1 |-> MaxLength],
     sequence_lengths |-> sequence_lengths]

\* poly.load_data(poly.JSB_CHORALES)
LoadData ==
    [train : {Split(<<MaxLength>>), Split(<<1, MaxLength>>)},
     test : {Split(<<1, 1, MaxLength>>), Split(<<MaxLength, MaxLength>>)}]

\* if args.truncate: None and 0 are false.
truthy(truncate) == truncate # None /\ truncate[1] # 0

\* lengths.clamp(max=m)
clamp(lens, m) ==
    [i \in 1..Len(lens) |-> IF lens[i] > m THEN m ELSE lens[i]]

\* sequences[:, :m] for m >= 0
truncated(seqs, m) ==
    [seqs EXCEPT !.shape1 = IF @ > m THEN m ELSE @]

RECURSIVE tensor_sum(_)
tensor_sum(lens) ==
    IF lens = <<>> THEN 0 ELSE Head(lens) + tensor_sum(Tail(lens))

Locals(seqs, lens) ==
    [sequences |-> seqs, lengths |-> lens,
     num_observations |-> tensor_sum(lens)]

\* sequences, lengths and num_observations for training.
train_data(data, args) ==
    IF truthy(args.truncate)
    THEN Locals(truncated(data.train.sequences, args.truncate[1]),
                clamp(data.train.sequence_lengths, args.truncate[1]))
    ELSE Locals(data.train.sequences, data.train.sequence_lengths)

test_data_mutant(data, args) ==
    Locals(data.test.sequences, data.test.sequence_lengths)

\* sequences, lengths and num_observations for the evaluation on the test
\* split: only the lengths are truncated.
test_data(data, args) ==
    IF truthy(args.truncate)
    THEN Locals(data.test.sequences,
                clamp(data.test.sequence_lengths, args.truncate[1]))
    ELSE Locals(data.test.sequences, data.test.sequence_lengths)

\* logging.info of a loss divided by num_observations.
Logged(what, call_index, divisor) ==
    [what |-> what, loss_of |-> call_index, divisor |-> divisor]

\* The first_available_dim main passes to enum when it prints shapes.
print_shapes_dim(args) ==
    IF args.model = "0" THEN -2
    ELSE IF args.model = "7" THEN -4
    ELSE -3

ElboInstance(cls, mpn, strict, jit_options) ==
    [cls |-> cls, max_plate_nesting |-> mpn,
     strict_enumeration_warning |-> strict, jit_options |-> jit_options]

Chosen(cls) == [raised |-> None, Elbo |-> Some(cls)]
Raises(exception) == [raised |-> exception, Elbo |-> None]

tmc_elbo_class_mutant(args) ==
    Chosen(IF args.jit THEN "JitTraceTMC_ELBO" ELSE "TraceTMC_ELBO")

\* if args.tmc: the check of the flags and the choice of the class.
tmc_elbo_class(args) ==
    IF args.jit /\ ~args.funsor THEN Raises(NotImplementedError)
    ELSE Chosen(IF args.jit THEN "JitTraceTMC_ELBO" ELSE "TraceTMC_ELBO")

enum_elbo_class_mutant(args) ==
    IF args.model = "7" /\ ~args.funsor THEN Raises(AssertionError)
    ELSE Chosen(IF args.jit THEN "JitTraceEnum_ELBO" ELSE "TraceEnum_ELBO")

\* else: the assertion for model 7 and the choice of the class.
enum_elbo_class(args) ==
    IF args.model = "7"
    THEN IF ~args.funsor THEN Raises(AssertionError)
         ELSE Chosen(IF args.jit THEN "JitTraceMarkovEnum_ELBO"
                     ELSE "TraceMarkovEnum_ELBO")
    ELSE Chosen(IF args.jit THEN "JitTraceEnum_ELBO" ELSE "TraceEnum_ELBO")

\* elbo = Elbo(max_plate_nesting=1 if model is model_0 else 2); model is by
\* now the functools.partial object.
tmc_elbo(cls, model) ==
    ElboInstance(cls, IF model = model_0 THEN 1 ELSE 2, None, None)

\* elbo = Elbo(max_plate_nesting=..., strict_enumeration_warning=True,
\*             jit_options={"time_compilation": args.time_compilation})
enum_elbo(cls, args) ==
    ElboInstance(cls,
                 IF args.model = "0" THEN 1
                 ELSE IF args.model = "7" THEN 3
                 ELSE 2,
                 Some(TRUE),
                 Some([time_compilation |-> args.time_compilation]))

MainCall(fn, dim, batch_size, include_prior) ==
    [fn |-> fn, first_available_dim |-> dim,
     sequences |-> sequences, lengths |-> lengths,
     batch_size |-> batch_size, include_prior |-> include_prior]

HmmInit ==
    /\ SeirIdle /\ ElboIdle
    /\ mpc = "print shapes"
    /\ margs \in {Some(a) : a \in MainArgs}
    /\ Elbo = None
    /\ helbo = None
    /\ svi = None
    /\ nsteps = 0
    /\ mraised = None
    /\ mcalls = <<>>
    /\ chorales \in {Some(d) : d \in LoadData}
    /\ \E r \in {train_data(chorales[1], margs[1])} :
          /\ sequences = Some(r.sequences)
          /\ lengths = Some(r.lengths)
          /\ num_observations = r.num_observations
    /\ logged = <<>>

\* if args.print_shapes: trace the guide and the enumerated, replayed model.
PrintShapes ==
    /\ mpc = "print shapes"
    /\ mcalls' = IF margs[1].print_shapes
                 THEN mcalls
                      \o << MainCall("get_trace guide", None,
                                     Some(margs[1].batch_size), None),
                            MainCall("get_trace model",
                                     Some(print_shapes_dim(margs[1])),
                                     Some(margs[1].batch_size), None) >>
                 ELSE mcalls
    /\ mpc' = "elbo"
    /\ UNCHANGED <<margs, Elbo, helbo, svi, nsteps, mraised, chorales,
                   sequences, lengths, num_observations, logged, seirVars,
                   elboVars>>

\* The two branches of if args.tmc up to elbo = Elbo(...).
MakeElbo ==
    /\ mpc = "elbo"
    /\ \E args \in {margs[1]} :
       \E r \in {IF args.tmc THEN tmc_elbo_class(args)
                 ELSE enum_elbo_class(args)} :
          IF r.raised # None
          THEN /\ mraised' = r.raised
               /\ mpc' = "raised"
               /\ UNCHANGED <<Elbo, helbo>>
          ELSE /\ Elbo' = r.Elbo
               /\ helbo' = Some(IF args.tmc
                                THEN tmc_elbo(r.Elbo[1],
                                         functools_partial(models(args.model)))
                                ELSE enum_elbo(r.Elbo[1], args))
               /\ mpc' = "svi"
               /\ UNCHANGED mraised
    /\ UNCHANGED <<margs, svi, nsteps, mcalls, chorales, sequences, lengths,
                   num_observations, logged, seirVars, elboVars>>

\* svi = infer.SVI(tmc_model or model, guide, optimizer, elbo)
MakeSVI ==
    /\ mpc = "svi"
    /\ svi' = Some([model |-> IF margs[1].tmc THEN "tmc_model" ELSE "model",
                    guide |-> "guide", optim |-> "Adam", loss |-> helbo[1]])
    /\ mpc' = "train"
    /\ UNCHANGED <<margs, Elbo, helbo, nsteps, mraised, mcalls, chorales,
                   sequences, lengths, num_observations, logged, seirVars,
                   elboVars>>

\* One iteration of for step in range(args.num_steps).
Step ==
    /\ mpc = "train"
    /\ nsteps < margs[1].num_steps
    /\ nsteps' = nsteps + 1
    /\ mcalls' = Append(mcalls, MainCall("svi.step", None,
                                         Some(margs[1].batch_size), None))
    /\ logged' = Append(logged, Logged("step", Len(mcalls) + 1,
                                       num_observations))
    /\ UNCHANGED <<mpc, margs, Elbo, helbo, svi, mraised, chorales, sequences,
                   lengths, num_observations, seirVars, elboVars>>

\* The loop is over; train_loss = elbo.loss(...)
TrainLoss ==
    /\ mpc = "train"
    /\ nsteps = margs[1].num_steps
    /\ mcalls' = Append(mcalls, MainCall("elbo.loss train", None,
                                         Some(sequences[1].shape0),
                                         Some(FALSE)))
    /\ logged' = Append(logged, Logged("training loss", Len(mcalls) + 1,
                                       num_observations))
    /\ mpc' = "test"
    /\ UNCHANGED <<margs, Elbo, helbo, svi, nsteps, mraised, chorales,
                   sequences, lengths, num_observations, seirVars, elboVars>>

\* The test split replaces sequences, lengths and num_observations;
\* test_loss = elbo.loss(...) and the return of main.
TestLoss ==
    /\ mpc = "test"
    /\ \E r \in {test_data(chorales[1], margs[1])} :
          /\ sequences' = Some(r.sequences)
          /\ lengths' = Some(r.lengths)
          /\ num_observations' = r.num_observations
          /\ mcalls' = Append(mcalls,
                              [MainCall("elbo.loss test", None,
                                        Some(r.sequences.shape0), Some(FALSE))
                                  EXCEPT !.sequences = Some(r.sequences),
                                         !.lengths = Some(r.lengths)])
          /\ logged' = Append(logged, Logged("test loss", Len(mcalls) + 1,
                                             r.num_observations))
    /\ mpc' = "done"
    /\ UNCHANGED <<margs, Elbo, helbo, svi, nsteps, mraised, chorales,
                   seirVars, elboVars>>

HmmNext ==
    PrintShapes \/ MakeElbo \/ MakeSVI \/ Step \/ TrainLoss \/ TestLoss

SpecHMM == HmmInit /\ [][HmmNext]_vars

-----------------------------------------------------------------------------
(* Properties of main.                                                     *)

\* main is past the statements that choose and construct the ELBO.
PastElbo == mpc \notin {"print shapes", "elbo"}

Steps == {i \in 1..Len(mcalls) : mcalls[i].fn = "svi.step"}

\* C9: with TMC off and args.model "7", main fails an assertion unless
\* args.funsor is set, and the ELBO class is TraceMarkovEnum_ELBO
\* (JitTraceMarkovEnum_ELBO with args.jit); with TMC off and any other
\* model the class is TraceEnum_ELBO (JitTraceEnum_ELBO with args.jit).
C9_Model7NeedsFunsor ==
    (~margs[1].tmc /\ PastElbo) =>
        IF margs[1].model = "7"
        THEN IF ~margs[1].funsor
             THEN /\ mraised = AssertionError
                  /\ Elbo = None /\ helbo = None /\ svi = None
             ELSE /\ mraised = None
                  /\ Elbo = Some(IF margs[1].jit
                                 THEN "JitTraceMarkovEnum_ELBO"
                                 ELSE "TraceMarkovEnum_ELBO")
                  /\ helbo[1].cls = Elbo[1]
        ELSE /\ mraised = None
             /\ Elbo = Some(IF margs[1].jit THEN "JitTraceEnum_ELBO"
                            ELSE "TraceEnum_ELBO")
             /\ helbo[1].cls = Elbo[1]

C9_Witness ==
    /\ mpc = "train"
    /\ ~margs[1].tmc /\ margs[1].model = "7" /\ margs[1].funsor
    /\ margs[1].jit
    /\ Elbo = Some("JitTraceMarkovEnum_ELBO")
    /\ svi # None

\* tmc with jit and without funsor raises NotImplementedError before any
\* SVI object is built and before any training step.
TmcJitRaises ==
    /\ (margs[1].tmc /\ margs[1].jit /\ ~margs[1].funsor /\ PastElbo) =>
          /\ mraised = NotImplementedError
          /\ mpc = "raised"
          /\ Elbo = None /\ helbo = None
          /\ svi = None
          /\ nsteps = 0 /\ Steps = {}
    /\ mraised = NotImplementedError =>
          margs[1].tmc /\ margs[1].jit /\ ~margs[1].funsor

\* C10 as stated: tmc with jit and without funsor raises NotImplementedError
\* before any SVI object is built and before any training step; every other
\* combination of the three flags goes on to construct an ELBO.
C10_AsStated ==
    /\ TmcJitRaises
    /\ (~(margs[1].tmc /\ margs[1].jit /\ ~margs[1].funsor) /\ PastElbo) =>
          /\ mraised = None
          /\ Elbo # None /\ helbo # None

\* C10, amended: tmc with jit and without funsor raises NotImplementedError
\* before any SVI object is built and before any training step; every other
\* combination of the three flags goes on to construct an ELBO, except that
\* with tmc off, model "7" and no funsor the assertion fails instead.
C10_TmcJit ==
    /\ TmcJitRaises
    /\ (~(margs[1].tmc /\ margs[1].jit /\ ~margs[1].funsor) /\ PastElbo) =>
          IF ~margs[1].tmc /\ margs[1].model = "7" /\ ~margs[1].funsor
          THEN mraised = AssertionError /\ Elbo = None /\ helbo = None
          ELSE mraised = None /\ Elbo # None /\ helbo # None

C10_Witness ==
    /\ mpc = "raised"
    /\ margs[1].tmc /\ margs[1].jit /\ ~margs[1].funsor
    /\ mraised = NotImplementedError
    /\ svi = None /\ nsteps = 0

CallsOf(fn) == {i \in 1..Len(mcalls) : mcalls[i].fn = fn}

\* The sum of a split's sequence lengths, each cut to args.truncate when
\* that is set.
Normaliser(split) ==
    LET m == margs[1].truncate
        cut(n) == IF m # None /\ m # Some(0) /\ n > m[1] THEN m[1] ELSE n
    IN tensor_sum([i \in 1..Len(split.sequence_lengths) |->
                      cut(split.sequence_lengths[i])])

\* A loss evaluation on a whole split, without the prior term.
WholeSplit(c, split) ==
    /\ c.batch_size = Some(Len(split.sequence_lengths))
    /\ c.sequences[1].shape0 = Len(split.sequence_lengths)
    /\ Len(c.lengths[1]) = Len(split.sequence_lengths)
    /\ c.include_prior = Some(FALSE)

\* C11: main makes exactly args.num_steps SVI steps with
\* batch_size=args.batch_size; only after the last step it evaluates the
\* training loss and then the test loss; both evaluations take the whole
\* split (batch_size the number of its sequences) with include_prior=False,
\* and each logged loss is divided by the sum of that split's (possibly
\* truncated) sequence lengths.
C11_TrainThenEvaluate ==
    /\ Cardinality(Steps) = nsteps /\ nsteps <= margs[1].num_steps
    /\ \A i \in Steps : mcalls[i].batch_size = Some(margs[1].batch_size)
    /\ \A i \in CallsOf("elbo.loss train") :
          /\ Cardinality(Steps) = margs[1].num_steps
          /\ \A j \in Steps : j < i
          /\ WholeSplit(mcalls[i], chorales[1].train)
    /\ \A i \in CallsOf("elbo.loss test") :
          /\ \E j \in CallsOf("elbo.loss train") : j < i
          /\ \A j \in Steps : j < i
          /\ WholeSplit(mcalls[i], chorales[1].test)
    /\ Cardinality(CallsOf("elbo.loss train")) <= 1
    /\ Cardinality(CallsOf("elbo.loss test")) <= 1
    /\ mpc = "done" =>
          /\ Cardinality(Steps) = margs[1].num_steps
          /\ Cardinality(CallsOf("elbo.loss train")) = 1
          /\ Cardinality(CallsOf("elbo.loss test")) = 1
    /\ \A k \in 1..Len(logged) :
          /\ logged[k].what = "training loss" =>
                /\ logged[k].loss_of \in CallsOf("elbo.loss train")
                /\ logged[k].divisor = Normaliser(chorales[1].train)
          /\ logged[k].what = "test loss" =>
                /\ logged[k].loss_of \in CallsOf("elbo.loss test")
                /\ logged[k].divisor = Normaliser(chorales[1].test)
    /\ mpc = "done" =>
          {"training loss", "test loss"}
              \subseteq {logged[k].what : k \in 1..Len(logged)}

C11_Witness ==
    /\ mpc = "done"
    /\ nsteps = margs[1].num_steps /\ nsteps > 1
    /\ margs[1].truncate = Some(1)
    /\ lengths[1] # chorales[1].test.sequence_lengths
    /\ Len(chorales[1].train.sequence_lengths)
          # Len(chorales[1].test.sequence_lengths)
    /\ Len(logged) = nsteps + 2

-----------------------------------------------------------------------------
(* Properties of the second half of Trace_ELBO.differentiable_loss.        *)

\* The costs from position first on, as many as there are factors, are
\* those factors with their sign changed and nothing else.
NegatedFrom(first, factors) ==
    \A i \in 1..Len(factors) :
        costs[first + i] = [factors[i] EXCEPT !.coef = -@]

\* C12: the costs are the contracted model costs, the uncontracted model
\* factors and the negation of every guide log factor, and nothing else;
\* there is exactly one target for each distinct set of cost inputs; every
\* cost is paired with the target whose inputs are its own; and the value
\* returned is the negation of the accumulated elbo.
C12_CostsAndTargets ==
    /\ epc \in {"targets", "integrate", "return", "done"} =>
          LET nc == Len(contracted_costs)
              nu == Len(uncontracted_factors)
              ng == Len(guide_terms[1].log_factors)
          IN /\ Len(costs) = nc + nu + ng
             /\ SubSeq(costs, 1, nc) = contracted_costs
             /\ SubSeq(costs, nc + 1, nc + nu) = uncontracted_factors
             /\ NegatedFrom(nc + nu, guide_terms[1].log_factors)
    /\ epc \in {"integrate", "return", "done"} =>
          /\ {targets[i].key : i \in 1..Len(targets)}
                = {c.inputs : c \in Range(costs)}
          /\ \A i, j \in 1..Len(targets) :
                targets[i].key = targets[j].key => i = j
          /\ \A i \in 1..Len(targets) :
                targets[i].value.inputs = targets[i].key
    /\ epc \in {"return", "done"} =>
          /\ Len(elbo_sum[1].terms) = Len(costs)
          /\ \A i \in 1..Len(costs) :
                LET term == elbo_sum[1].terms[i]
                IN /\ term.integrand = costs[i]
                   /\ term.target.inputs = costs[i].inputs
                   /\ \E k \in 1..Len(targets) :
                         /\ targets[k].value = term.target
                         /\ tape_log_measures[k].key = term.target
                         /\ tape_log_measures[k].value = term.log_measure
    /\ epc = "done" =>
          /\ returned # None
          /\ returned[1].sign = -1
          /\ returned[1].of = elbo_sum[1]

C12_Witness ==
    /\ epc = "done"
    /\ contracted_costs # <<>>
    /\ uncontracted_factors # <<>>
    /\ guide_terms[1].log_factors # <<>>
    /\ Len(targets) > 1
    /\ Len(targets) < Len(costs)
    /\ returned # None

====
